---- MODULE Spec2Model ----
(***************************************************************************)
(* A model of somd2's window scheduler (runner/_runner.py, class Runner)   *)
(* and of one window's simulation session (runner/_dynamics.py, class      *)
(* Dynamics).                                                              *)
(*                                                                         *)
(* Spec        : Runner.run and Runner.run_window, one process per lambda  *)
(*               window, with the shared GPU pool and its lock.  A         *)
(*               session's run is one attempt with two outcomes.           *)
(* SpecSession : a sequential run at the level of the production blocks of *)
(*               Dynamics._run, followed by restarts from a checkpoint.    *)
(* SpecEnergy  : one such run, for any energy_frequency, increment and     *)
(*               engine sampling, with the files its sessions write.       *)
(* SpecRun     : one such run with energies sampled every tick, followed   *)
(*               for the order of the steps of each session.               *)
(* SpecChunks  : the ordering of the chunk files at the end of             *)
(*               Dynamics._run, for any number of blocks.                  *)
(* SpecLambda  : the lambda grid of Runner.__init__ and generate_lam_vals  *)
(*               of Dynamics._run, each applied to its arguments.          *)
(***************************************************************************)
EXTENDS Integers, Sequences, FiniteSets, TLC

\* ------------------------------------------------------------- bounds ----

\* config.num_lambda: the number of lambda windows of a run.
NumLambda == 2
\* The longest list of device identifiers in CUDA_VISIBLE_DEVICES.
MaxDevices == 2
\* The largest config.max_threads.
MaxThreads == 2

\* The largest config.runtime, in ticks of simulated time.
MaxRuntime == 3
\* The program is run at most this many times: a first run, then restarts.
MaxInvocations == 2
\* The largest config.num_lambda a lambda grid is generated for.
MaxNumLambda == 9
\* The largest number of turns of the block loop whose chunk files are
\* assembled into one trajectory.
MaxBlocks == 11

\* Simulated time is counted in ticks; the engine's default unit of time
\* (a picosecond) is this many ticks.
TicksPerPs == 4

\* The values of config.runtime and config.checkpoint_frequency (0: no
\* checkpointing) and config.equilibration_time, in ticks.
Runtimes == 1..MaxRuntime
CheckpointFrequencies == {0, 1, 2}
EquilibrationTimes == {0, 1}
\* The values of config.energy_frequency, in ticks.
EnergyFrequencies == {1, 2}

\* How the engine counts energy samples in run(time, energy_frequency=e): one
\* for every whole e within the run ("run_floor"), that and one more when the
\* run ends between two samples ("run_ceil"), or one whenever its clock
\* passes a multiple of e ("clock").
SamplingModes == {"run_floor", "run_ceil", "clock"}

\* The file dataframe_to_parquet writes when it is given no filename: the
\* window's energy trajectory file, or another file.
DefaultFiles == {"energy_traj", "other"}

Windows == 1..NumLambda

\* Lambda values are whole multiples of 10^-5: round(value, 5) and the
\* format .5f both keep five decimals.
Scale == 100000

\* The default of Dynamics' parameter increment, 0.001.
DefaultIncrement == 100

\* The values of Dynamics' parameter increment: the default, one half, and
\* some above it.
Increments == {DefaultIncrement, 50000, 60000, 150000}

\* The values of generate_lam_vals' argument lambda_base: 0, 0.0005, 0.25,
\* 0.5, 0.9995 and 1.
LambdaBases == {0, 50, 25000, 50000, 99950, 100000}

\* The increments of the sessions of a run: the default, and one above 1.
SessionIncrements == {DefaultIncrement, 150000}

\* round(a / b, 5) and the like, for a and b in units where the result is a
\* whole number: the nearest one.
RoundDiv(a, b) == (2 * a + b) \div (2 * b)

lambda_values_n(n) == [k \in 1..n |-> RoundDiv((k - 1) * Scale, n)]

\* Runner.__init__: self._lambda_values for num_lambda = n, in units of 10^-5.
lambda_values(n) == [k \in 1..n |-> RoundDiv((k - 1) * Scale, n - 1)]

\* Python's None.
None == "None"

\* The raw identifiers a device list is made of (they need not be 0..k-1).
RawIds == {"3", "7"}

\* str(i) of a list position i (0-based).
Str(i) == CASE i = 0 -> "0" [] i = 1 -> "1" [] i = 2 -> "2" [] i = 3 -> "3"
            [] OTHER -> "n"

\* Every sequence over S of length 1..n.
SeqsUpTo(S, n) == UNION {[1..k -> S] : k \in 1..n}

Range(s) == {s[i] : i \in DOMAIN s}

\* list.index(value): the 0-based position of the first occurrence.
Index(s, value) == (CHOOSE i \in DOMAIN s :
                       s[i] = value /\ \A j \in DOMAIN s : s[j] = value => i <= j) - 1

\* list.remove(value): the list without the first occurrence of value.
Remove(s, value) ==
    LET i == Index(s, value) + 1
    IN  SubSeq(s, 1, i - 1) \o SubSeq(s, i + 1, Len(s))

Min(a, b) == IF a <= b THEN a ELSE b

\* ---------------------------------------------------------- variables ----

VARIABLES
    \* Spec: the Runner
    config,      \* the Config fields run(), run_window() read
    environ,     \* CUDA_VISIBLE_DEVICES: whether it is set, and its split(",")
    mainPc,      \* where run() is
    nextSubmit,  \* the next window of the "for lambda_value" loops
    jobs,        \* run()'s dict jobs (its keys, as windows)
    collected,   \* the jobs as_completed() has yielded
    results,     \* run()'s list results
    gpu_pool,    \* Runner._gpu_pool
    lock,        \* Runner._lock: 0, or the window whose process holds it
    max_workers, \* Runner.max_workers
    pc,          \* where each window's run_window call is
    gpu_num,     \* run_window's local gpu_num
    held,        \* the window removed gpu_num from the pool and has not put it back
    attempts,    \* per window: the lambda_minimisation argument of each sim._run call
    outcomes,    \* per window: the outcome of each sim._run call
    exc,         \* per window: the exception that left run_window
    \* SpecSession: a sequential run, one Dynamics object after the other
    configured,  \* the options the program was started with
    invocation,  \* 1 for the first run of the program, then one more per restart
    runner_time, \* Runner._system.time(): the clock of the system given to Runner
    checkpoint,  \* per window: the clock in its checkpoint file, -1 without a file
    spc,         \* where the run_window call of window nextSubmit is
    attempt,     \* the number of the sim._run call of _run(sim), 1 or 2
    lambda_minimisation, \* that call's argument
    current_block, \* Dynamics._current_block
    system_time, \* Dynamics._system.time()
    dyn_time,    \* the clock of the engine object Dynamics._dyn
    num_blocks,  \* _run's local num_blocks
    rem,         \* _run's local rem, as the numerator of rem = this / checkpoint_frequency
    block,       \* the number of turns of the block loop taken in this call
    executed,    \* per window: the absolute indices of the blocks its session ran
    past,        \* per window: the indices its sessions ran in earlier invocations
    sampling,    \* the engine's way of counting energy samples
    default_file, \* the file dataframe_to_parquet(df, metadata, filepath) writes
    df,          \* the number of rows of self._system.energy_trajectory()
    parquet,     \* per window: the rows (as row numbers of df) in its energy trajectory file
    last_write,  \* the last block's write to that file, and the rows the block produced
    written,     \* per window: the files its sessions wrote in this run of the program
    increment,   \* Dynamics._increment, in units of 10^-5
    lambda_grad, \* Dynamics._lambda_grad
    last_error,  \* the exception sim._run or the constructor raised last
    phases,      \* the phases run so far in this run of the program, with their windows
    steps,       \* per window: what its session did in this run of the program, in order
    properties,  \* which systems and checkpoint files carry "config" and "lambda"
    traj_chunks, \* _run's local traj_chunks, each file as its block index (-1: the .bak file)
    frames,      \* Dynamics._num_frames, and the frames of Dynamics._system and of the engine
    chunks,      \* per window: the chunk files written in this run of the program, in order
    \* SpecLambda: the lambda values on their own
    grid_n,      \* config.num_lambda
    grid,        \* Runner._lambda_values
    lambda_base  \* generate_lam_vals' argument lambda_base

runnerVars == <<config, environ, mainPc, nextSubmit, jobs, collected, results,
                gpu_pool, lock, max_workers, pc, gpu_num, held, attempts,
                outcomes, exc>>

\* What a sequential run at block level leaves alone.
poolVars == <<environ, jobs, collected, gpu_pool, lock, max_workers, pc, gpu_num,
              held, attempts, outcomes, exc, grid_n, grid, lambda_base, traj_chunks>>

sessionVars == <<configured, invocation, runner_time, checkpoint, spc, attempt,
                 lambda_minimisation, current_block, system_time, dyn_time,
                 num_blocks, rem, block, executed, past, sampling, default_file, df,
                 parquet, last_write, written, increment, lambda_grad, last_error,
                 phases, steps, properties, traj_chunks, frames, chunks, grid_n, grid,
                 lambda_base>>

\* The energy trajectory, its file and the engine's sampling.
energyVars == <<sampling, default_file, df, parquet, last_write, written>>

vars == <<runnerVars, sessionVars>>

\* ------------------------------------------------------ device bookkeeping

\* Runner.zero_cuda_devices: each value becomes str of the position of its
\* first occurrence in the list.
zero_cuda_devices(devices) == [i \in DOMAIN devices |-> Str(Index(devices, devices[i]))]

\* get_cuda_devices()[: max_gpus], or the whole list when max_gpus is None
\* (config.max_gpus is << >> for None and <<n>> for the number n).
VisibleDevices ==
    IF config.max_gpus = << >> THEN environ.devices
    ELSE SubSeq(environ.devices, 1, Min(config.max_gpus[1], Len(environ.devices)))

\* The list _create_shared_resources puts in the pool.
StartupPool == zero_cuda_devices(VisibleDevices)

Parallel == config.run_parallel
Cuda == config.platform = "cuda"
PoolRun == Parallel /\ Cuda

Terminal(w) == pc[w] \in {"done", "failed"}

\* A window a worker process (or, sequentially, the caller) is executing.
Active(w) == pc[w] \notin {"unsubmitted", "queued", "done", "failed"}

\* ------------------------------------------------------------ Init -------

\* os.environ.get("CUDA_VISIBLE_DEVICES") is None.
Unset == [is_set |-> FALSE, devices |-> << >>]

Configs ==
    [run_parallel : BOOLEAN, platform : {"cpu", "cuda"}, minimise : BOOLEAN,
     max_gpus : {<< >>} \cup {<<n>> : n \in 1..MaxDevices},
     max_threads : 1..MaxThreads,
     restart : BOOLEAN, runtime : Runtimes,
     checkpoint_frequency : CheckpointFrequencies,
     equilibration_time : EquilibrationTimes,
     energy_frequency : EnergyFrequencies,
     save_trajectories : BOOLEAN, save_energy_components : BOOLEAN]

\* The options and the environment a run is started with.  Options the chosen
\* dispatch never reads are held at one value: max_gpus and the device list
\* matter only to a parallel cuda run, max_threads only to a parallel cpu run.
InitRunner ==
    /\ config \in Configs
    /\ environ \in {Unset} \cup {[is_set |-> TRUE, devices |-> d] :
                                   d \in SeqsUpTo(RawIds, MaxDevices)}
    /\ ~(config.run_parallel /\ config.platform = "cuda")
          => config.max_gpus = << >> /\ environ = Unset
    /\ ~(config.run_parallel /\ config.platform = "cpu") => config.max_threads = 1
    /\ ~config.restart /\ config.runtime = 1 /\ config.checkpoint_frequency = 1
    /\ config.equilibration_time = 0 /\ config.energy_frequency = 1
    /\ config.save_trajectories /\ config.save_energy_components
    /\ mainPc = "start"
    /\ nextSubmit = 1
    /\ jobs = {}
    /\ collected = {}
    /\ results = << >>
    /\ gpu_pool = << >>
    /\ lock = 0
    /\ max_workers = 0
    /\ pc = [w \in Windows |-> "unsubmitted"]
    /\ gpu_num = [w \in Windows |-> None]
    /\ held = [w \in Windows |-> FALSE]
    /\ attempts = [w \in Windows |-> << >>]
    /\ outcomes = [w \in Windows |-> << >>]
    /\ exc = [w \in Windows |-> None]

\* No energy sample was taken and no energy trajectory file was written.
NoWrite == [kind |-> "none", produced |-> << >>, appended |-> << >>]

\* Neither the system given to Runner, nor Dynamics._system, nor the system
\* of the engine object, nor a checkpoint file has the two properties.
NoProperties ==
    [runner |-> FALSE, system |-> FALSE, dyn |-> FALSE,
     checkpoint |-> [w \in Windows |-> FALSE]]

\* self._num_frames = 0 of Dynamics.__init__, on a system and an engine
\* without frames.
NoFrames == [num_frames |-> 0, system |-> 0, dyn |-> 0]

NoRows ==
    /\ frames = NoFrames
    /\ chunks = [w \in Windows |-> << >>]
    /\ steps = [w \in Windows |-> << >>]
    /\ properties = NoProperties
    /\ traj_chunks = << >>
    /\ df = 0
    /\ parquet = [w \in Windows |-> << >>]
    /\ last_write = NoWrite
    /\ written = [w \in Windows |-> {}]
    /\ lambda_grad = << >>
    /\ last_error = None
    /\ phases = << >>

\* With energy_frequency one tick the sampling modes agree.
EnergyIdle ==
    /\ sampling = "clock"
    /\ default_file = "energy_traj"
    /\ NoRows

\* In Spec a session is one step of its window; its own state is not used.
SessionUnused ==
    /\ configured = config
    /\ invocation = 1
    /\ runner_time = 0
    /\ checkpoint = [w \in Windows |-> -1]
    /\ spc = "unused"
    /\ attempt = 1
    /\ lambda_minimisation = None
    /\ current_block = 0
    /\ system_time = 0
    /\ dyn_time = 0
    /\ num_blocks = 0
    /\ rem = 0
    /\ block = 0
    /\ executed = [w \in Windows |-> << >>]
    /\ past = [w \in Windows |-> {}]
    /\ EnergyIdle

\* The lambda values are those of the run's windows.
LambdaIdle ==
    /\ grid_n = NumLambda
    /\ grid = lambda_values(NumLambda)
    /\ lambda_base = 0

SessionIdle ==
    /\ SessionUnused
    /\ increment = DefaultIncrement
    /\ LambdaIdle

Init == InitRunner /\ SessionIdle

\* ------------------------------------------------------------ Runner.run --

UnchangedWindows ==
    UNCHANGED <<pc, gpu_num, held, attempts, outcomes, exc, lock, sessionVars>>

\* run(), parallel branch up to the executor: _create_shared_resources and
\* max_workers.  get_cuda_devices raises ValueError when the variable is unset.
RunStartParallel ==
    /\ mainPc = "start"
    /\ Parallel
    /\ IF Cuda /\ ~environ.is_set
       THEN /\ mainPc' = "raised"
            /\ UNCHANGED <<gpu_pool, max_workers>>
       ELSE /\ mainPc' = "submit"
            /\ gpu_pool' = IF Cuda THEN StartupPool ELSE gpu_pool
            /\ max_workers' = IF Cuda THEN Len(StartupPool)
                              ELSE IF NumLambda > config.max_threads
                                   THEN config.max_threads ELSE NumLambda
    /\ UNCHANGED <<config, environ, nextSubmit, jobs, collected, results>>
    /\ UnchangedWindows

\* One turn of "for lambda_value in self._lambda_values": the dict jobs is
\* built anew for each submitted window.
Submit ==
    /\ mainPc = "submit"
    /\ pc' = [pc EXCEPT ![nextSubmit] = "queued"]
    /\ jobs' = {nextSubmit}
    /\ nextSubmit' = nextSubmit + 1
    /\ mainPc' = IF nextSubmit = NumLambda THEN "collect" ELSE "submit"
    /\ UNCHANGED <<config, environ, collected, results, gpu_pool, max_workers,
                   gpu_num, held, attempts, outcomes, exc, lock, sessionVars>>

\* One turn of "for job in as_completed(jobs)": a finished job's result is
\* appended, its exception is printed and dropped.
Collect(w) ==
    /\ mainPc = "collect"
    /\ w \in jobs \ collected
    /\ Terminal(w)
    /\ collected' = collected \cup {w}
    /\ results' = IF pc[w] = "done" THEN Append(results, w) ELSE results
    /\ UNCHANGED <<config, environ, mainPc, nextSubmit, jobs, gpu_pool, max_workers>>
    /\ UnchangedWindows

\* as_completed is exhausted.
CollectDone ==
    /\ mainPc = "collect"
    /\ collected = jobs
    /\ mainPc' = "shutdown"
    /\ UNCHANGED <<config, environ, nextSubmit, jobs, collected, results, gpu_pool,
                   max_workers>>
    /\ UnchangedWindows

ExecutorExitNoWait ==
    /\ mainPc = "shutdown"
    /\ mainPc' = "returned"
    /\ UNCHANGED <<config, environ, nextSubmit, jobs, collected, results, gpu_pool,
                   max_workers>>
    /\ UnchangedWindows

\* The end of "with ProcessPoolExecutor(...) as executor": shutdown(wait=True)
\* returns when every submitted call has finished; then run() returns results.
ExecutorExit ==
    /\ mainPc = "shutdown"
    /\ \A w \in Windows : Terminal(w)
    /\ mainPc' = "returned"
    /\ UNCHANGED <<config, environ, nextSubmit, jobs, collected, results, gpu_pool,
                   max_workers>>
    /\ UnchangedWindows

\* A free worker process takes the oldest queued call.
WorkerStart(w) ==
    /\ Parallel
    /\ pc[w] = "queued"
    /\ \A v \in Windows : pc[v] = "queued" => w <= v
    /\ Cardinality({v \in Windows : Active(v)}) < max_workers
    /\ pc' = [pc EXCEPT ![w] = IF Cuda THEN "lock_acquire" ELSE "initialise"]
    /\ UNCHANGED <<config, environ, mainPc, nextSubmit, jobs, collected, results,
                   gpu_pool, max_workers, gpu_num, held, attempts, outcomes, exc, lock,
                   sessionVars>>

\* run(), sequential branch: nothing is created; the loop calls run_window.
RunStartSequential ==
    /\ mainPc = "start"
    /\ ~Parallel
    /\ mainPc' = "sequential"
    /\ UNCHANGED <<config, environ, nextSubmit, jobs, collected, results, gpu_pool,
                   max_workers>>
    /\ UnchangedWindows

\* "result = self.run_window(lambda_value)" is entered for the next window.
\* Without run_parallel the cuda device is 0.
SequentialCall ==
    /\ mainPc = "sequential"
    /\ nextSubmit <= NumLambda
    /\ pc[nextSubmit] = "unsubmitted"
    /\ pc' = [pc EXCEPT ![nextSubmit] = "initialise"]
    /\ gpu_num' = [gpu_num EXCEPT ![nextSubmit] = IF Cuda THEN "0" ELSE None]
    /\ UNCHANGED <<config, environ, mainPc, nextSubmit, jobs, collected, results,
                   gpu_pool, max_workers, held, attempts, outcomes, exc, lock,
                   sessionVars>>

\* run_window returned or raised: the result is appended, an exception leaves
\* run(); after the last window run() returns.
SequentialNext ==
    /\ mainPc = "sequential"
    /\ nextSubmit <= NumLambda
    /\ Terminal(nextSubmit)
    /\ IF pc[nextSubmit] = "failed"
       THEN /\ mainPc' = "raised"
            /\ UNCHANGED <<results, nextSubmit>>
       ELSE /\ results' = Append(results, nextSubmit)
            /\ nextSubmit' = nextSubmit + 1
            /\ mainPc' = IF nextSubmit = NumLambda THEN "returned" ELSE "sequential"
    /\ UNCHANGED <<config, environ, jobs, collected, gpu_pool, max_workers>>
    /\ UnchangedWindows

\* ------------------------------------------------------ Runner.run_window --

UnchangedMain == UNCHANGED <<config, environ, mainPc, nextSubmit, jobs, collected,
                             results, max_workers, sessionVars>>

\* "with self._lock:" is entered only while no other process holds the lock.
LockFree == lock = 0

\* Entering the "with self._lock:" block that takes a device (parallel cuda).
LockAcquire(w) ==
    /\ pc[w] = "lock_acquire"
    /\ LockFree
    /\ lock' = w
    /\ pc' = [pc EXCEPT ![w] = "pool_read"]
    /\ UNCHANGED <<gpu_pool, gpu_num, held, attempts, outcomes, exc>>
    /\ UnchangedMain

\* gpu_num = self._gpu_pool[0]; on an empty pool IndexError leaves the with
\* block (the lock is released) and run_window.
PoolRead(w) ==
    /\ pc[w] = "pool_read"
    /\ IF gpu_pool = << >>
       THEN /\ pc' = [pc EXCEPT ![w] = "failed"]
            /\ exc' = [exc EXCEPT ![w] = "IndexError"]
            /\ lock' = 0
            /\ UNCHANGED gpu_num
       ELSE /\ gpu_num' = [gpu_num EXCEPT ![w] = gpu_pool[1]]
            /\ pc' = [pc EXCEPT ![w] = "pool_remove"]
            /\ UNCHANGED <<exc, lock>>
    /\ UNCHANGED <<gpu_pool, held, attempts, outcomes>>
    /\ UnchangedMain

\* self._remove_gpu_from_pool(gpu_num), the print, and the end of the with
\* block.  list.remove raises ValueError when the value is not in the list.
PoolRemove(w) ==
    /\ pc[w] = "pool_remove"
    /\ IF gpu_num[w] \in Range(gpu_pool)
       THEN /\ gpu_pool' = Remove(gpu_pool, gpu_num[w])
            /\ held' = [held EXCEPT ![w] = TRUE]
            /\ pc' = [pc EXCEPT ![w] = "initialise"]
            /\ UNCHANGED exc
       ELSE /\ pc' = [pc EXCEPT ![w] = "failed"]
            /\ exc' = [exc EXCEPT ![w] = "ValueError"]
            /\ UNCHANGED <<gpu_pool, held>>
    /\ lock' = 0
    /\ UNCHANGED <<gpu_num, attempts, outcomes>>
    /\ UnchangedMain

\* self._initialise_simulation(...): the Dynamics object is constructed.
InitialiseOk(w) ==
    /\ pc[w] = "initialise"
    /\ pc' = [pc EXCEPT ![w] = "run"]
    /\ UNCHANGED <<gpu_pool, lock, gpu_num, held, attempts, outcomes, exc>>
    /\ UnchangedMain

\* The constructor raises (KeyError, TypeError, the ValueError of
\* create_filenames; the call as written passes no lambda_energy).  The
\* exception is logged and re-raised; run_window's call is outside its try.
InitialiseRaises(w) ==
    /\ pc[w] = "initialise"
    /\ pc' = [pc EXCEPT ![w] = "failed"]
    /\ exc' = [exc EXCEPT ![w] = "construct"]
    /\ UNCHANGED <<gpu_pool, lock, gpu_num, held, attempts, outcomes>>
    /\ UnchangedMain

\* The lambda_minimisation argument of the next sim._run call of _run(sim).
NextLambdaMinimisation(w) == IF attempts[w] = << >> THEN None ELSE "0.0"

RetryAlways(w) == config.minimise /\ Len(attempts[w]) < 3

\* _run(sim): a second sim._run follows only the first one's exception, and
\* only with config.minimise.
RetryAllowed(w) == config.minimise /\ attempts[w] = << >>

\* Where run_window goes once _run(sim) has returned its triple.
AfterRunOk == IF PoolRun THEN "release_ok" ELSE "finish"

AfterRunSwallowed == IF PoolRun THEN "release_ok" ELSE "finish"

\* Where it goes when the exception leaves the try: the cuda branch of a
\* parallel run first puts the device back.
AfterRunRaises == IF PoolRun THEN "release_exc" ELSE "failed"

\* sim._run(...) returns the energy trajectory.
RunSucceeds(w) ==
    /\ pc[w] = "run"
    /\ attempts' = [attempts EXCEPT ![w] = Append(@, NextLambdaMinimisation(w))]
    /\ outcomes' = [outcomes EXCEPT ![w] = Append(@, "ok")]
    /\ pc' = [pc EXCEPT ![w] = AfterRunOk]
    /\ UNCHANGED <<gpu_pool, lock, gpu_num, held, exc>>
    /\ UnchangedMain

\* sim._run(...) raises.  With minimise the first exception is logged and
\* sim._run(lambda_minimisation=0.0) follows, the second is re-raised.  Without
\* minimise the exception is logged, _run(sim) returns None and unpacking it
\* into df, lambda_grad, speed raises TypeError inside run_window's try.
RunRaises(w) ==
    /\ pc[w] = "run"
    /\ attempts' = [attempts EXCEPT ![w] = Append(@, NextLambdaMinimisation(w))]
    /\ outcomes' = [outcomes EXCEPT ![w] = Append(@, "raise")]
    /\ IF RetryAllowed(w)
       THEN UNCHANGED <<pc, exc>>
       ELSE /\ pc' = [pc EXCEPT ![w] = AfterRunRaises]
            /\ exc' = [exc EXCEPT ![w] = IF config.minimise THEN "session"
                                         ELSE "TypeError"]
    /\ UNCHANGED <<gpu_pool, lock, gpu_num, held>>
    /\ UnchangedMain

\* Entering "with self._lock:" around self._update_gpu_pool(gpu_num).
ReleaseLockAcquire(w) ==
    /\ pc[w] \in {"release_ok", "release_exc"}
    /\ LockFree
    /\ lock' = w
    /\ pc' = [pc EXCEPT ![w] = IF pc[w] = "release_ok" THEN "append_ok"
                               ELSE "append_exc"]
    /\ UNCHANGED <<gpu_pool, gpu_num, held, attempts, outcomes, exc>>
    /\ UnchangedMain

\* self._gpu_pool.append(gpu_num) and the end of the with block; in the
\* except branch the exception is then re-raised.
PoolAppend(w) ==
    /\ pc[w] \in {"append_ok", "append_exc"}
    /\ gpu_pool' = Append(gpu_pool, gpu_num[w])
    /\ held' = [held EXCEPT ![w] = FALSE]
    /\ lock' = 0
    /\ pc' = [pc EXCEPT ![w] = IF pc[w] = "append_ok" THEN "finish" ELSE "failed"]
    /\ UNCHANGED <<gpu_num, attempts, outcomes, exc>>
    /\ UnchangedMain

\* self._sim._cleanup(), dataframe_to_parquet(...) and the return.
FinishOk(w) ==
    /\ pc[w] = "finish"
    /\ pc' = [pc EXCEPT ![w] = "done"]
    /\ UNCHANGED <<gpu_pool, lock, gpu_num, held, attempts, outcomes, exc>>
    /\ UnchangedMain

\* dataframe_to_parquet raises (the final energy file cannot be written).
FinishRaises(w) ==
    /\ pc[w] = "finish"
    /\ pc' = [pc EXCEPT ![w] = "failed"]
    /\ exc' = [exc EXCEPT ![w] = "io"]
    /\ UNCHANGED <<gpu_pool, lock, gpu_num, held, attempts, outcomes>>
    /\ UnchangedMain

RunWindow(w) ==
    \/ LockAcquire(w)
    \/ PoolRead(w)
    \/ PoolRemove(w)
    \/ InitialiseOk(w)
    \/ InitialiseRaises(w)
    \/ RunSucceeds(w)
    \/ RunRaises(w)
    \/ ReleaseLockAcquire(w)
    \/ PoolAppend(w)
    \/ FinishOk(w)
    \/ FinishRaises(w)

Next ==
    \/ RunStartParallel
    \/ Submit
    \/ \E w \in Windows : Collect(w)
    \/ CollectDone
    \/ ExecutorExit
    \/ \E w \in Windows : WorkerStart(w)
    \/ RunStartSequential
    \/ SequentialCall
    \/ SequentialNext
    \/ \E w \in Windows : RunWindow(w)

Spec == Init /\ [][Next]_vars

\* ------------------------------------------------------------ Dynamics ---

Abs(n) == IF n < 0 THEN -n ELSE n

\* int(round(time / checkpoint_frequency, 12)) for whole numbers of ticks:
\* the quotient is rounded to 12 decimals (up to the next whole number when
\* it lies within 5e-13 of it) and int() cuts towards zero.
RoundedQuotient(time, frequency) ==
    LET a == Abs(time)
        b == Abs(frequency)
        q == a \div b
        r == a % b
        up == r > 0 /\ ((b \div (2 * (b - r))) \div 1000000) >= 1000000
        m == IF up THEN q + 1 ELSE q
    IN  IF (time < 0) # (frequency < 0) THEN -m ELSE m

\* The engine's run(time): its clock moves on by the time asked for, and
\* does not move back.
Advance(time) == IF time > 0 THEN time ELSE 0

\* self._dyn.run(rem, ...): rem is the bare number frac - num_blocks, without
\* a unit.  The engine either takes it for a number of steps (int(rem) = 0:
\* less than a tick) or for a time in its default unit.
RemainderAdvances(r, frequency) == {0, (TicksPerPs * r) \div frequency}

\* f"{lambda_value:.5f}": the digits before and after the point.
Format5(value) == <<value \div Scale, value % Scale>>

\* A file of the output directory: its name without the lambda value and the
\* block number, and these two where the name has them.
File(name, lam, x) == [name |-> name, lam |-> lam, block |-> x]

\* Dynamics.create_filenames.
create_filenames(lambda_value) ==
    LET lam == Format5(lambda_value)
    IN  [topology0 |-> File("system0.prm7", << >>, -1),
         topology1 |-> File("system1.prm7", << >>, -1),
         checkpoint |-> File("checkpoint_.s3", lam, -1),
         energy_traj |-> File("energy_traj_.parquet", lam, -1),
         trajectory |-> File("traj_.dcd", lam, -1),
         trajectory_chunk |-> File("traj__.dcd", lam, -1),
         energy_components |-> File("energy_components_.txt", lam, -1)]

\* self._filenames of the session of window nextSubmit.
Filenames == create_filenames(grid[nextSubmit])

\* The chunk file of block x.
Chunk(x) == [Filenames.trajectory_chunk EXCEPT !.block = x]

\* The file of dataframe_to_parquet(df, metadata, filepath) when it is not
\* the energy trajectory file: its name is made from the metadata's lambda.
default_parquet == File("default.parquet", Filenames.energy_traj.lam, -1)

\* The files one turn of the block loop writes before the checkpoint file.
BlockFiles(x) ==
    (IF config.save_energy_components THEN {Filenames.energy_components} ELSE {})
        \cup (IF config.save_trajectories THEN {Chunk(x)} ELSE {})

Write(files) == written' = [written EXCEPT ![nextSubmit] = @ \cup files]

\* One thing a session does: the part of sim._run (or of run_window) it belongs
\* to, the operation, the block index x it is done for (-1 without one), the
\* clocks of Dynamics._system and of the engine at that point, whether
\* Dynamics._system then has the properties "config" and "lambda", and the
\* number of energy rows it produces or writes.
Step(part, op, x, s, e, m, n) ==
    [part |-> part, op |-> op, x |-> x, system |-> s, engine |-> e,
     metadata |-> m, rows |-> n]

Do(events) == steps' = [steps EXCEPT ![nextSubmit] = @ \o events]

\* The number of rows self._dyn.run(time, energy_frequency=e, ...) adds to the
\* energy trajectory when the engine's clock is at clock.
Samples(clock, time, e) ==
    CASE sampling = "run_floor" -> time \div e
      [] sampling = "run_ceil" -> (time + e - 1) \div e
      [] OTHER -> ((clock + time) \div e) - (clock \div e)

\* The rows a + 1 .. b of the energy trajectory.
Rows(a, b) == [i \in 1..(b - a) |-> a + i]

\* df.iloc[-k:] of a dataframe of n rows: its last k rows, and all of its
\* rows for k = 0 (-0 is 0).
LastRows(n, k) == IF k = 0 THEN Rows(0, n) ELSE Rows(IF n > k THEN n - k ELSE 0, n)

\* parquet_append(file, rows): the rows are added at the end of the file.
parquet_append(file, rows) == file \o rows

\* dataframe_to_parquet(df, ...): the file holds the rows of df.
dataframe_to_parquet(n) == Rows(0, n)

\* The number of frames self._dyn.run(time, frame_frequency=..., ...) adds
\* to the engine's trajectory: a frame is saved every tick.
FramesIn(time) == time

\* sr.save(trajectory[first:], traj_filename) for block x: the frames the
\* file holds, numbered as in the trajectory, and the frames the engine
\* produced in the block.
ChunkWrite(x, first, last, before, after) ==
    [x |-> x, saved |-> (first + 1)..last, produced |-> (before + 1)..after]

SaveChunk(x, first, last, before, after) ==
    chunks' = [chunks EXCEPT ![nextSubmit] =
                  Append(@, ChunkWrite(x, first, last, before, after))]

\* The frames of one turn of the block loop: the engine adds its frames,
\* the commit brings them into Dynamics._system, and with save_trajectories
\* the frames from _num_frames on are saved and _num_frames is moved on.
BlockFrames ==
    LET total == frames.dyn + FramesIn(Advance(config.checkpoint_frequency))
    IN  IF config.save_trajectories
        THEN /\ SaveChunk(block + current_block, frames.num_frames, total,
                          frames.dyn, total)
             /\ frames' = [num_frames |-> total, system |-> total, dyn |-> total]
        ELSE /\ frames' = [frames EXCEPT !.system = total, !.dyn = total]
             /\ UNCHANGED chunks

\* The frames of the remainder block, the engine moving on by d: the chunk
\* is cut from Dynamics._system as it is before the commit, which follows.
RemainderFrames(d) ==
    LET total == frames.dyn + FramesIn(d)
    IN  IF config.save_trajectories
        THEN /\ SaveChunk(current_block + num_blocks, frames.num_frames,
                          frames.system, frames.dyn, total)
             /\ frames' = [num_frames |-> frames.system, system |-> total,
                           dyn |-> total]
        ELSE /\ frames' = [frames EXCEPT !.system = total, !.dyn = total]
             /\ UNCHANGED chunks

\* The chunk files of window w in the output directory: for each block
\* index the file written last.
ChunkFiles(w) ==
    {i \in DOMAIN chunks[w] :
        \A j \in DOMAIN chunks[w] : chunks[w][j].x = chunks[w][i].x => j <= i}

RECURSIVE LoadedFrames(_, _)
\* system.num_frames() of the system loaded from the chunk files at the
\* positions S of window w's chunks.
LoadedFrames(w, S) ==
    IF S = {} THEN 0
    ELSE LET i == CHOOSE k \in S : TRUE
         IN  Cardinality(chunks[w][i].saved) + LoadedFrames(w, S \ {i})

BlockStepsCheckpointFirst ==
    LET x == block + current_block
        t == dyn_time + Advance(config.checkpoint_frequency)
        produced == Samples(dyn_time, Advance(config.checkpoint_frequency),
                            config.energy_frequency)
    IN  <<Step("block", "advance", x, system_time, t, properties.system, produced),
          Step("block", "checkpoint", x, system_time, t, properties.system, 0),
          Step("block", "commit", x, t, t, properties.dyn, 0),
          Step("block", IF block = 0 THEN "energy_fresh" ELSE "energy_append", x, t, t,
               properties.dyn, df + produced)>>

\* One turn of the block loop, in the order of its statements: the engine
\* runs, the energy components are saved, the engine's state is committed
\* (the system is then the engine's, with the properties the engine was set
\* up with), the chunk and the checkpoint file are written, and the energy
\* trajectory is written afresh (first turn) or appended to.
BlockSteps ==
    LET x == block + current_block
        t == dyn_time + Advance(config.checkpoint_frequency)
        produced == Samples(dyn_time, Advance(config.checkpoint_frequency),
                            config.energy_frequency)
        n == df + produced
        energy_per_block == config.checkpoint_frequency \div config.energy_frequency
        rows == IF block = 0 THEN n ELSE Len(LastRows(n, energy_per_block))
    IN  <<Step("block", "advance", x, system_time, t, properties.system, produced)>>
        \o (IF config.save_energy_components
            THEN <<Step("block", "energy_components", x, system_time, t,
                        properties.system, 0)>>
            ELSE << >>)
        \o <<Step("block", "commit", x, t, t, properties.dyn, 0)>>
        \o (IF config.save_trajectories
            THEN <<Step("block", "chunk", x, t, t, properties.dyn, 0)>>
            ELSE << >>)
        \o <<Step("block", "checkpoint", x, t, t, properties.dyn, 0),
             Step("block", IF block = 0 THEN "energy_fresh" ELSE "energy_append", x, t, t,
                  properties.dyn, rows)>>

\* The block after the loop, the engine moving on by d: run, chunk file
\* (written from Dynamics._system as it was before the run), commit.
RemainderSteps(d) ==
    LET x == current_block + num_blocks
        t == dyn_time + d
    IN  <<Step("remainder", "advance", x, system_time, t, properties.system,
               Samples(dyn_time, d, config.energy_frequency))>>
        \o (IF config.save_trajectories
            THEN <<Step("remainder", "chunk", x, system_time, t, properties.system, 0)>>
            ELSE << >>)
        \o <<Step("remainder", "commit", x, t, t, properties.dyn, 0)>>

\* The single run without checkpointing: run, commit.
SingleSteps ==
    LET t == dyn_time + Advance(config.checkpoint_frequency)
    IN  <<Step("single", "advance", -1, system_time, t, properties.system,
               Samples(dyn_time, Advance(config.checkpoint_frequency),
                       config.energy_frequency)),
          Step("single", "commit", -1, t, t, properties.dyn, 0)>>

FinaliseStepsNoCheckpoint ==
    (IF config.save_trajectories
     THEN <<Step("finalise", "trajectory", -1, system_time, dyn_time,
                 properties.system, 0)>>
     ELSE << >>)
    \o <<Step("complete", "energy_final", -1, system_time, dyn_time, TRUE, df)>>

\* The end of sim._run and of run_window: the trajectory file is assembled,
\* the two properties are added to the system, the checkpoint file is
\* written; run_window then writes the final energy file.
FinaliseSteps ==
    (IF config.save_trajectories
     THEN <<Step("finalise", "trajectory", -1, system_time, dyn_time,
                 properties.system, 0)>>
     ELSE << >>)
    \o <<Step("finalise", "checkpoint", -1, system_time, dyn_time, TRUE, 0),
         Step("complete", "energy_final", -1, system_time, dyn_time, TRUE, df)>>

generate_lam_vals_swapped(base, incr) ==
    IF base + incr > Scale /\ base - incr < 0
    THEN [raised |-> TRUE, lam_vals |-> << >>]
    ELSE [raised |-> FALSE,
          lam_vals |-> IF base + incr > Scale THEN <<base + incr>>
                       ELSE IF base - incr < 0 THEN <<base - incr>>
                       ELSE <<base - incr, base + incr>>]

generate_lam_vals_either(base, incr) ==
    IF base + incr > Scale \/ base - incr < 0
    THEN [raised |-> TRUE, lam_vals |-> << >>]
    ELSE [raised |-> FALSE, lam_vals |-> <<base - incr, base + incr>>]

\* generate_lam_vals(lambda_base, increment) of Dynamics._run: whether it
\* raises ValueError("Increment too large"), and the list it returns.
generate_lam_vals(base, incr) ==
    IF base + incr > Scale /\ base - incr < 0
    THEN [raised |-> TRUE, lam_vals |-> << >>]
    ELSE [raised |-> FALSE,
          lam_vals |-> IF base + incr > Scale THEN <<base - incr>>
                       ELSE IF base - incr < 0 THEN <<base + incr>>
                       ELSE <<base - incr, base + incr>>]

\* self._lambda_val of the session of window nextSubmit.
LambdaVal == grid[nextSubmit]

\* The session of window nextSubmit is the one self._sim refers to.
InSession == mainPc = "sequential" /\ nextSubmit \in Windows

\* A first run of the program: sequential, on the cpu, not a restart.
SessionStart ==
    /\ config \in Configs
    /\ ~config.run_parallel /\ config.platform = "cpu"
    /\ config.max_gpus = << >> /\ config.max_threads = 1
    /\ ~config.restart
    /\ configured = config
    /\ environ = Unset
    /\ mainPc = "sequential"
    /\ nextSubmit = 1
    /\ jobs = {}
    /\ collected = {}
    /\ results = << >>
    /\ gpu_pool = << >>
    /\ lock = 0
    /\ max_workers = 0
    /\ pc = [w \in Windows |-> "unsubmitted"]
    /\ gpu_num = [w \in Windows |-> None]
    /\ held = [w \in Windows |-> FALSE]
    /\ attempts = [w \in Windows |-> << >>]
    /\ outcomes = [w \in Windows |-> << >>]
    /\ exc = [w \in Windows |-> None]
    /\ invocation = 1
    /\ runner_time = 0
    /\ checkpoint = [w \in Windows |-> -1]
    /\ spc = "construct"
    /\ attempt = 1
    /\ lambda_minimisation = None
    /\ current_block = 0
    /\ system_time = 0
    /\ dyn_time = 0
    /\ num_blocks = 0
    /\ rem = 0
    /\ block = 0
    /\ executed = [w \in Windows |-> << >>]
    /\ past = [w \in Windows |-> {}]
    /\ NoRows

\* SpecSession: energies are sampled every tick.
InitSession ==
    /\ SessionStart
    /\ config.energy_frequency = 1
    /\ config.save_trajectories /\ config.save_energy_components
    /\ sampling = "clock"
    /\ default_file = "energy_traj"
    /\ increment = DefaultIncrement
    /\ LambdaIdle

\* SpecEnergy: any energy_frequency, any engine, any default file.
InitEnergy ==
    /\ SessionStart
    /\ sampling \in SamplingModes
    /\ default_file \in DefaultFiles
    /\ increment \in SessionIncrements
    /\ LambdaIdle

\* An exception leaves run_window and, with it, the sequential run().
WindowRaises ==
    /\ spc' = "failed"
    /\ mainPc' = "raised"
    /\ UNCHANGED <<nextSubmit, results, attempt, lambda_minimisation>>

\* Dynamics.__init__: on a restart config.runtime is lowered by the system's
\* clock and _current_block is worked out from it.
ConstructOk ==
    /\ InSession
    /\ spc = "construct"
    /\ ~(config.restart /\ config.checkpoint_frequency = 0)
    /\ config' = IF config.restart
                 THEN [config EXCEPT !.runtime = @ - runner_time]
                 ELSE config
    /\ current_block' = IF config.restart
                        THEN RoundedQuotient(runner_time, config.checkpoint_frequency)
                        ELSE 0
    /\ system_time' = runner_time
    /\ dyn_time' = runner_time
    /\ attempt' = 1
    /\ lambda_minimisation' = None
    /\ spc' = "topology"
    /\ df' = 0
    /\ last_write' = NoWrite
    /\ UNCHANGED <<configured, invocation, runner_time, checkpoint, num_blocks, rem,
                   block, executed, past, mainPc, nextSubmit, results, poolVars,
                   sampling, default_file, parquet, written>>
    /\ lambda_grad' = << >>
    /\ last_error' = None
    /\ frames' = NoFrames
    /\ UNCHANGED chunks
    /\ properties' = [properties EXCEPT !.system = properties.runner]
    /\ UNCHANGED <<increment, phases, steps>>

\* The constructor raises: at its checks, or (on a restart with
\* checkpoint_frequency 0) at the division, after config.runtime was lowered.
ConstructRaises ==
    /\ InSession
    /\ spc = "construct"
    /\ \/ UNCHANGED config
       \/ /\ config.restart /\ config.checkpoint_frequency = 0
          /\ config' = [config EXCEPT !.runtime = @ - runner_time]
    /\ WindowRaises
    /\ UNCHANGED <<configured, invocation, runner_time, checkpoint, current_block,
                   system_time, dyn_time, num_blocks, rem, block, executed, past,
                   poolVars, energyVars>>
    /\ last_error' = "construct"
    /\ UNCHANGED <<frames, chunks>>
    /\ UNCHANGED <<increment, lambda_grad, phases, steps, properties>>

\* _run(sim) after an exception of sim._run: with minimise the first one is
\* followed by sim._run(lambda_minimisation=0.0) on the same object, any
\* other one leaves run_window.
AttemptRaised ==
    IF config.minimise /\ attempt = 1
    THEN /\ attempt' = 2
         /\ lambda_minimisation' = "0.0"
         /\ spc' = "topology"
         /\ UNCHANGED <<mainPc, nextSubmit, results>>
    ELSE WindowRaises

AfterMinimisationFinalises == "finalise"

\* What follows the topology files and the first minimisation in sim._run.
AfterMinimisation == IF config.equilibration_time > 0 THEN "equilibrate" ELSE "setup"

\* sr.save of the two topology files, system0.prm7 and system1.prm7.
SaveTopology ==
    /\ InSession
    /\ spc = "topology"
    /\ Write({Filenames.topology0, Filenames.topology1})
    /\ spc' = IF config.minimise THEN "minimise" ELSE AfterMinimisation
    /\ UNCHANGED <<config, configured, invocation, runner_time, checkpoint, attempt,
                   lambda_minimisation, current_block, system_time, dyn_time,
                   num_blocks, rem, block, executed, past, mainPc, nextSubmit,
                   results, poolVars,
                   sampling, default_file, df, parquet, last_write>>
    /\ Do(<<Step("start", "topology", -1, system_time, dyn_time, properties.system, 0)>>)
    /\ UNCHANGED <<frames, chunks>>
    /\ UNCHANGED <<increment, lambda_grad, last_error, phases, properties>>

\* self._minimisation(lambda_minimisation, ...).
Minimisation ==
    /\ InSession
    /\ spc = "minimise"
    /\ spc' = AfterMinimisation
    /\ UNCHANGED <<config, configured, invocation, runner_time, checkpoint, attempt,
                   lambda_minimisation, current_block, system_time, dyn_time,
                   num_blocks, rem, block, executed, past, mainPc, nextSubmit,
                   results, poolVars, energyVars>>
    /\ phases' = Append(phases, <<nextSubmit, "minimise">>)
    /\ Do(<<Step("minimise", "minimise", -1, system_time, dyn_time, properties.system, 0)>>)
    /\ UNCHANGED <<frames, chunks>>
    /\ UNCHANGED <<increment, lambda_grad, last_error, properties>>

\* self._equilibration(), the reset of the clock to 0 ps and the second
\* minimisation.  is_restart is never passed to sim._run, so this runs on a
\* restart too.
Equilibration ==
    /\ InSession
    /\ spc = "equilibrate"
    /\ system_time' = 0
    /\ spc' = "setup"
    /\ UNCHANGED <<config, configured, invocation, runner_time, checkpoint, attempt,
                   lambda_minimisation, current_block, dyn_time, num_blocks, rem,
                   block, executed, past, mainPc, nextSubmit, results, poolVars, energyVars>>
    /\ phases' = Append(phases, <<nextSubmit, "equilibrate">>)
    /\ Do(<<Step("equilibrate", "equilibrate", -1, 0, dyn_time, properties.system, 0)>>)
    /\ UNCHANGED <<frames, chunks>>
    /\ UNCHANGED <<increment, lambda_grad, last_error, properties>>

\* The second minimisation raises, after the clock was reset.
EquilibrationRaisesAfterReset ==
    /\ InSession
    /\ spc = "equilibrate"
    /\ system_time' = 0
    /\ AttemptRaised
    /\ UNCHANGED <<config, configured, invocation, runner_time, checkpoint,
                   current_block, dyn_time, num_blocks, rem, block, executed, past,
                   poolVars, energyVars>>
    /\ last_error' = "other"
    /\ phases' = Append(phases, <<nextSubmit, "equilibrate">>)
    /\ Do(<<Step("equilibrate", "equilibrate", -1, 0, dyn_time, properties.system, 0)>>)
    /\ UNCHANGED <<frames, chunks>>
    /\ UNCHANGED <<increment, lambda_grad, properties>>

\* self._setup_dynamics(), generate_lam_vals and the block arithmetic: with
\* runtime below checkpoint_frequency the frequency is set to the runtime.
SetupProduction ==
    /\ InSession
    /\ spc = "setup"
    /\ ~generate_lam_vals(LambdaVal, increment).raised
    /\ dyn_time' = system_time
    /\ block' = 0
    /\ IF config.checkpoint_frequency > 0
       THEN /\ spc' = "block"
            /\ IF config.runtime < config.checkpoint_frequency
               THEN /\ config' = [config EXCEPT !.checkpoint_frequency = config.runtime]
                    /\ num_blocks' = 1
                    /\ rem' = 0
               ELSE /\ num_blocks' = config.runtime \div config.checkpoint_frequency
                    /\ rem' = config.runtime % config.checkpoint_frequency
                    /\ UNCHANGED config
       ELSE /\ spc' = "single"
            /\ UNCHANGED <<config, num_blocks, rem>>
    /\ UNCHANGED <<configured, invocation, runner_time, checkpoint, attempt,
                   lambda_minimisation, current_block, system_time, executed, past,
                   mainPc, nextSubmit, results, poolVars, energyVars>>
    /\ lambda_grad' = generate_lam_vals(LambdaVal, increment).lam_vals
    /\ frames' = [frames EXCEPT !.dyn = frames.system]
    /\ UNCHANGED chunks
    /\ properties' = [properties EXCEPT !.dyn = properties.system]
    /\ UNCHANGED <<increment, last_error, phases, steps>>

\* self._setup_dynamics(), then generate_lam_vals raises.
IncrementTooLarge ==
    /\ InSession
    /\ spc = "setup"
    /\ generate_lam_vals(LambdaVal, increment).raised
    /\ dyn_time' = system_time
    /\ last_error' = "Increment too large"
    /\ AttemptRaised
    /\ UNCHANGED <<config, configured, invocation, runner_time, checkpoint,
                   current_block, system_time, num_blocks, rem, block, executed, past,
                   poolVars, energyVars, increment, lambda_grad, phases, steps>>
    /\ frames' = [frames EXCEPT !.dyn = frames.system]
    /\ UNCHANGED chunks
    /\ properties' = [properties EXCEPT !.dyn = properties.system]

\* One turn of the block loop, x = block + _current_block: the engine runs
\* for checkpoint_frequency, its state is committed, the checkpoint file and
\* the energy trajectory are written.
Block ==
    /\ InSession
    /\ spc = "block"
    /\ LET x == block + current_block
           t == dyn_time + Advance(config.checkpoint_frequency)
       IN  /\ dyn_time' = t
           /\ system_time' = t
           /\ checkpoint' = [checkpoint EXCEPT ![nextSubmit] = t]
           /\ executed' = [executed EXCEPT ![nextSubmit] = Append(@, x)]
    /\ LET n == df + Samples(dyn_time, Advance(config.checkpoint_frequency),
                             config.energy_frequency)
           energy_per_block == config.checkpoint_frequency \div config.energy_frequency
           rows == IF block = 0 THEN dataframe_to_parquet(n)
                   ELSE LastRows(n, energy_per_block)
       IN  /\ df' = n
           /\ parquet' = [parquet EXCEPT ![nextSubmit] =
                             IF block = 0 THEN rows ELSE parquet_append(@, rows)]
           /\ last_write' = [kind |-> IF block = 0 THEN "first" ELSE "later",
                             produced |-> Rows(df, n), appended |-> rows]
    /\ Write(BlockFiles(block + current_block)
                \cup {Filenames.checkpoint, Filenames.energy_traj})
    /\ block' = block + 1
    /\ spc' = IF block + 1 < num_blocks THEN "block"
              ELSE IF rem > 0 THEN "remainder" ELSE "finalise"
    /\ UNCHANGED <<config, configured, invocation, runner_time, attempt,
                   lambda_minimisation, current_block, num_blocks, rem, past, mainPc,
                   nextSubmit, results, poolVars,
                   sampling, default_file>>
    /\ phases' = Append(phases, <<nextSubmit, "block">>)
    /\ Do(BlockSteps)
    /\ BlockFrames
    /\ properties' = [properties EXCEPT
                         !.system = IF block = 0 THEN TRUE ELSE properties.dyn,
                         !.checkpoint[nextSubmit] = properties.dyn]
    /\ UNCHANGED <<increment, lambda_grad, last_error>>

\* The block's engine run succeeds and is committed, then writing the chunk
\* or the checkpoint file raises.
BlockSaveRaises ==
    /\ InSession
    /\ spc = "block"
    /\ LET x == block + current_block
           t == dyn_time + Advance(config.checkpoint_frequency)
       IN  /\ dyn_time' = t
           /\ system_time' = t
           /\ executed' = [executed EXCEPT ![nextSubmit] = Append(@, x)]
    /\ df' = df + Samples(dyn_time, Advance(config.checkpoint_frequency),
                          config.energy_frequency)
    /\ Write(BlockFiles(block + current_block))
    /\ AttemptRaised
    /\ UNCHANGED <<config, configured, invocation, runner_time, checkpoint,
                   current_block, num_blocks, rem, block, past, poolVars,
                   sampling, default_file, parquet, last_write>>
    /\ last_error' = "other"
    /\ phases' = Append(phases, <<nextSubmit, "block">>)
    /\ Do(SubSeq(BlockSteps, 1, Len(BlockSteps) - 2))
    /\ BlockFrames
    /\ properties' = [properties EXCEPT !.system = properties.dyn]
    /\ UNCHANGED <<increment, lambda_grad>>

\* The block after the loop, x = the loop's last x + 1: the engine runs for
\* rem and its state is committed; no checkpoint is written.
RemainderBlock ==
    /\ InSession
    /\ spc = "remainder"
    /\ \E d \in RemainderAdvances(rem, config.checkpoint_frequency) :
          /\ dyn_time' = dyn_time + d
          /\ system_time' = dyn_time + d
          /\ df' = df + Samples(dyn_time, d, config.energy_frequency)
          /\ Do(RemainderSteps(d))
          /\ RemainderFrames(d)
    /\ executed' = [executed EXCEPT ![nextSubmit] = Append(@, current_block + num_blocks)]
    /\ Write(IF config.save_trajectories THEN {Chunk(current_block + num_blocks)}
             ELSE {})
    /\ spc' = "finalise"
    /\ UNCHANGED <<config, configured, invocation, runner_time, checkpoint, attempt,
                   lambda_minimisation, current_block, num_blocks, rem, block, past,
                   mainPc, nextSubmit, results, poolVars,
                   sampling, default_file, parquet, last_write>>
    /\ phases' = Append(phases, <<nextSubmit, "remainder">>)
    /\ properties' = [properties EXCEPT !.system = properties.dyn]
    /\ UNCHANGED <<increment, lambda_grad, last_error>>

\* Without checkpointing (checkpoint_frequency not above 0) the engine runs
\* once, for checkpoint_frequency, and its state is committed.
SingleRun ==
    /\ InSession
    /\ spc = "single"
    /\ dyn_time' = dyn_time + Advance(config.checkpoint_frequency)
    /\ system_time' = dyn_time + Advance(config.checkpoint_frequency)
    /\ df' = df + Samples(dyn_time, Advance(config.checkpoint_frequency),
                          config.energy_frequency)
    /\ spc' = "finalise"
    /\ UNCHANGED <<config, configured, invocation, runner_time, checkpoint, attempt,
                   lambda_minimisation, current_block, num_blocks, rem, block,
                   executed, past, mainPc, nextSubmit, results, poolVars,
                   sampling, default_file, parquet, last_write, written>>
    /\ phases' = Append(phases, <<nextSubmit, "single">>)
    /\ Do(SingleSteps)
    /\ frames' = [frames EXCEPT
                     !.system = frames.dyn + FramesIn(Advance(config.checkpoint_frequency)),
                     !.dyn = frames.dyn + FramesIn(Advance(config.checkpoint_frequency))]
    /\ UNCHANGED chunks
    /\ properties' = [properties EXCEPT !.system = properties.dyn]
    /\ UNCHANGED <<increment, lambda_grad, last_error>>

\* The end of sim._run (the final checkpoint is written, df is returned) and
\* of run_window (dataframe_to_parquet(df, ...) without a filename); run()
\* appends the result and goes to the next window.
Finalise ==
    /\ InSession
    /\ spc = "finalise"
    /\ checkpoint' = [checkpoint EXCEPT ![nextSubmit] = system_time]
    /\ parquet' = IF default_file = "energy_traj"
                  THEN [parquet EXCEPT ![nextSubmit] = dataframe_to_parquet(df)]
                  ELSE parquet
    /\ Write((IF config.save_trajectories THEN {Filenames.trajectory} ELSE {})
                \cup {Filenames.checkpoint}
                \cup {IF default_file = "energy_traj" THEN Filenames.energy_traj
                       ELSE default_parquet})
    /\ results' = Append(results, nextSubmit)
    /\ nextSubmit' = nextSubmit + 1
    /\ IF nextSubmit = NumLambda
       THEN mainPc' = "returned" /\ spc' = "idle"
       ELSE mainPc' = "sequential" /\ spc' = "construct"
    /\ UNCHANGED <<config, configured, invocation, runner_time, attempt,
                   lambda_minimisation, current_block, system_time, dyn_time,
                   num_blocks, rem, block, executed, past, poolVars,
                   sampling, default_file, df, last_write>>
    /\ phases' = Append(phases, <<nextSubmit, "finalise">>)
    /\ Do(FinaliseSteps)
    /\ frames' = IF config.save_trajectories
                 THEN [frames EXCEPT !.num_frames =
                          LoadedFrames(nextSubmit, ChunkFiles(nextSubmit))]
                 ELSE frames
    /\ UNCHANGED chunks
    /\ properties' = [properties EXCEPT !.system = TRUE,
                                        !.checkpoint[nextSubmit] = TRUE]
    /\ UNCHANGED <<increment, lambda_grad, last_error>>

\* A step of sim._run raises before it changed the session: a file cannot
\* be written, the minimiser or the engine fails, generate_lam_vals raises.
SimRunRaises ==
    /\ InSession
    /\ spc \in {"topology", "minimise", "equilibrate", "setup", "block", "remainder",
                "single", "finalise"}
    /\ AttemptRaised
    /\ UNCHANGED <<config, configured, invocation, runner_time, checkpoint,
                   current_block, system_time, dyn_time, num_blocks, rem, block,
                   executed, past, poolVars, energyVars>>
    /\ last_error' = "other"
    /\ UNCHANGED <<frames, chunks>>
    /\ UNCHANGED <<increment, lambda_grad, phases, steps, properties>>

\* The program is run again with restart set, on the system loaded from the
\* checkpoint file of window src, with the options of the first run and a
\* runtime not below the time already simulated.
Restart(src, runtime) ==
    /\ mainPc \in {"returned", "raised"}
    /\ invocation < MaxInvocations
    /\ checkpoint[src] >= 0
    /\ runtime >= checkpoint[src]
    /\ config' = [configured EXCEPT !.restart = TRUE, !.runtime = runtime]
    /\ configured' = config'
    /\ invocation' = invocation + 1
    /\ runner_time' = checkpoint[src]
    /\ past' = [w \in Windows |-> IF w = src THEN past[w] \cup Range(executed[w])
                                  ELSE {}]
    /\ executed' = [w \in Windows |-> << >>]
    /\ results' = << >>
    /\ nextSubmit' = 1
    /\ mainPc' = "sequential"
    /\ spc' = "construct"
    /\ attempt' = 1
    /\ lambda_minimisation' = None
    /\ current_block' = 0
    /\ system_time' = 0
    /\ dyn_time' = 0
    /\ num_blocks' = 0
    /\ rem' = 0
    /\ block' = 0
    /\ df' = 0
    /\ last_write' = NoWrite
    /\ written' = [w \in Windows |-> {}]
    /\ UNCHANGED <<checkpoint, poolVars,
                   sampling, default_file, parquet>>
    /\ lambda_grad' = << >>
    /\ last_error' = None
    /\ phases' = << >>
    /\ steps' = [w \in Windows |-> << >>]
    /\ frames' = NoFrames
    /\ chunks' = [w \in Windows |-> << >>]
    /\ properties' = [properties EXCEPT !.runner = properties.checkpoint[src],
                                        !.system = FALSE, !.dyn = FALSE]
    /\ UNCHANGED <<increment>>

\* With the default increment generate_lam_vals does not raise.
NextSession ==
    \/ ConstructOk
    \/ ConstructRaises
    \/ SaveTopology
    \/ Minimisation
    \/ Equilibration
    \/ EquilibrationRaisesAfterReset
    \/ SetupProduction
    \/ Block
    \/ BlockSaveRaises
    \/ RemainderBlock
    \/ SingleRun
    \/ Finalise
    \/ SimRunRaises
    \/ \E src \in Windows, runtime \in Runtimes : Restart(src, runtime)

SpecSession == InitSession /\ [][NextSession]_vars

\* One run of the program, followed for its energy trajectory.
NextEnergy ==
    \/ ConstructOk
    \/ ConstructRaises
    \/ SaveTopology
    \/ Minimisation
    \/ Equilibration
    \/ EquilibrationRaisesAfterReset
    \/ SetupProduction
    \/ IncrementTooLarge
    \/ Block
    \/ BlockSaveRaises
    \/ RemainderBlock
    \/ SingleRun
    \/ Finalise
    \/ SimRunRaises

SpecEnergy == InitEnergy /\ [][NextEnergy]_vars

\* SpecRun: one run of the program from its start, with energies sampled
\* every tick and the energy components saved, with or without trajectory
\* files.
InitRun ==
    /\ SessionStart
    /\ config.energy_frequency = 1
    /\ config.save_energy_components
    /\ sampling = "clock"
    /\ default_file = "energy_traj"
    /\ increment = DefaultIncrement
    /\ LambdaIdle

NextRun ==
    \/ ConstructOk
    \/ ConstructRaises
    \/ SaveTopology
    \/ Minimisation
    \/ Equilibration
    \/ EquilibrationRaisesAfterReset
    \/ SetupProduction
    \/ Block
    \/ BlockSaveRaises
    \/ RemainderBlock
    \/ SingleRun
    \/ Finalise
    \/ SimRunRaises

SpecRun == InitRun /\ [][NextRun]_vars

\* ----------------------------------------------- assembling the trajectory

\* str(x) of a block index: its decimal digits as character codes.
RECURSIVE Digits(_)
Digits(x) == IF x < 10 THEN <<48 + x>> ELSE Digits(x \div 10) \o <<48 + (x % 10)>>

\* What follows the common prefix in the name of the chunk file of block x,
\* up to the character after the digits: f"{x}.dcd", "." having code 46.
ChunkName(x) == Digits(x) \o <<46>>

\* a < b for two strings: at the first position where they differ a has
\* the smaller character, or a ends there.
StrLess(a, b) ==
    \/ \E k \in 1..Min(Len(a), Len(b)) :
          a[k] < b[k] /\ \A j \in 1..(k - 1) : a[j] = b[j]
    \/ Len(a) < Len(b) /\ \A j \in 1..Len(a) : a[j] = b[j]

\* sorted(glob(prefix + "*")) for the chunk files of the blocks in S: the
\* names in the order of strings.
sorted(S) ==
    LET before(x) == {y \in S : StrLess(ChunkName(y), ChunkName(x))}
    IN  [i \in 1..Cardinality(S) |-> CHOOSE x \in S : Cardinality(before(x)) = i - 1]

\* The block indices of the chunk files a session has written when its
\* production loop has ended.
ChunkIndices ==
    current_block .. (current_block + num_blocks - 1 + IF rem > 0 THEN 1 ELSE 0)

\* SpecChunks: a session at the end of its production loop, after any number
\* of blocks of two ticks, in a first run or in a restart from a later block;
\* runtime is what num_blocks and rem were worked out from.
InitChunks ==
    /\ num_blocks \in 1..MaxBlocks
    /\ rem \in {0, 1}
    /\ \E c \in Configs :
          /\ ~c.run_parallel /\ c.platform = "cpu" /\ ~c.minimise
          /\ c.max_gpus = << >> /\ c.max_threads = 1
          /\ c.runtime = 1 /\ c.checkpoint_frequency = 2
          /\ c.equilibration_time = 0 /\ c.energy_frequency = 1
          /\ c.save_trajectories /\ c.save_energy_components
          /\ config = [c EXCEPT !.runtime = 2 * num_blocks + rem]
    /\ configured = config
    /\ environ = Unset
    /\ mainPc = "sequential"
    /\ nextSubmit = 1
    /\ jobs = {}
    /\ collected = {}
    /\ results = << >>
    /\ gpu_pool = << >>
    /\ lock = 0
    /\ max_workers = 0
    /\ pc = [w \in Windows |-> "unsubmitted"]
    /\ gpu_num = [w \in Windows |-> None]
    /\ held = [w \in Windows |-> FALSE]
    /\ attempts = [w \in Windows |-> << >>]
    /\ outcomes = [w \in Windows |-> << >>]
    /\ exc = [w \in Windows |-> None]
    /\ invocation = IF config.restart THEN 2 ELSE 1
    /\ current_block \in IF config.restart THEN 0..MaxRuntime ELSE {0}
    /\ runner_time = 2 * current_block
    /\ checkpoint = [w \in Windows |-> -1]
    /\ spc = "finalise"
    /\ attempt = 1
    /\ lambda_minimisation = None
    /\ system_time = 2 * (current_block + num_blocks)
    /\ dyn_time = system_time
    /\ block = num_blocks
    /\ executed = [w \in Windows |-> << >>]
    /\ past = [w \in Windows |-> {}]
    /\ EnergyIdle
    /\ increment = DefaultIncrement
    /\ LambdaIdle

\* What assembling the trajectory leaves alone.
chunksFrame == <<runnerVars, configured, invocation, runner_time, checkpoint,
                 attempt, lambda_minimisation, current_block, system_time, dyn_time,
                 num_blocks, rem, block, executed, past, sampling, default_file, df,
                 parquet, last_write, written, increment, lambda_grad, last_error,
                 phases, steps, properties, frames, chunks, grid_n, grid,
                 lambda_base>>

\* traj_chunks = sorted(glob(...)).
GlobChunks ==
    /\ spc = "finalise"
    /\ traj_chunks = << >>
    /\ traj_chunks' = sorted(ChunkIndices)
    /\ spc' = "backup"
    /\ UNCHANGED chunksFrame

\* On a restart with a trajectory file from the earlier run: the file is
\* copied to a .bak file, which is put in front of the chunks.
PrependBackup ==
    /\ spc = "backup"
    /\ config.restart
    /\ traj_chunks' = <<-1>> \o traj_chunks
    /\ spc' = "load"
    /\ UNCHANGED chunksFrame

NextChunks ==
    \/ GlobChunks
    \/ PrependBackup

SpecChunks == InitChunks /\ [][NextChunks]_vars

\* --------------------------------------------------------- lambda values

\* SpecLambda: the two functions that make lambda values, each applied once
\* to its arguments.
InitLambda ==
    /\ InitRunner
    /\ ~config.run_parallel /\ config.platform = "cpu" /\ ~config.minimise
    /\ SessionUnused
    /\ grid_n \in 2..MaxNumLambda
    /\ grid = << >>
    /\ lambda_base \in LambdaBases
    /\ increment \in Increments

\* What the two functions leave alone.
lambdaFrame == <<runnerVars, configured, invocation, runner_time, checkpoint, spc,
                 attempt, lambda_minimisation, current_block, system_time, dyn_time,
                 num_blocks, rem, block, executed, past, sampling, default_file, df,
                 parquet, last_write, written, phases, steps, properties, traj_chunks,
                 frames, chunks, increment, grid_n, lambda_base>>

\* Runner.__init__: self._lambda_values = [round(i / (num_lambda - 1), 5) ...].
SetLambdaValues ==
    /\ grid = << >>
    /\ grid' = lambda_values(grid_n)
    /\ UNCHANGED <<lambdaFrame, lambda_grad, last_error>>

\* self._lambda_grad = generate_lam_vals(self._lambda_val, self._increment).
GenerateLamVals ==
    /\ lambda_grad = << >>
    /\ last_error = None
    /\ LET r == generate_lam_vals(lambda_base, increment)
       IN  IF r.raised
           THEN last_error' = "Increment too large" /\ UNCHANGED lambda_grad
           ELSE lambda_grad' = r.lam_vals /\ UNCHANGED last_error
    /\ UNCHANGED <<lambdaFrame, grid>>

NextLambda ==
    \/ SetLambdaValues
    \/ GenerateLamVals

SpecLambda == InitLambda /\ [][NextLambda]_vars

\* ---------------------------------------- properties of the lambda values

InUnit(value) == 0 <= value /\ value <= Scale

\* generate_lam_vals has returned or raised.
Generated == lambda_grad # << >> \/ last_error = "Increment too large"

\* C16: for a lambda value in [0, 1] and an increment above 0,
\* generate_lam_vals returns both neighbours when both lie in [0, 1], the
\* one inside when exactly one lies outside, and raises when both lie
\* outside; every value it returns lies in [0, 1].
C16_GradientNeighbours ==
    Generated =>
        LET lower == lambda_base - increment
            upper == lambda_base + increment
        IN  /\ (InUnit(lower) /\ InUnit(upper)) =>
                  lambda_grad = <<lower, upper>> /\ last_error = None
            /\ (InUnit(lower) /\ ~InUnit(upper)) =>
                  lambda_grad = <<lower>> /\ last_error = None
            /\ (~InUnit(lower) /\ InUnit(upper)) =>
                  lambda_grad = <<upper>> /\ last_error = None
            /\ (~InUnit(lower) /\ ~InUnit(upper)) =>
                  lambda_grad = << >> /\ last_error = "Increment too large"
            /\ \A i \in DOMAIN lambda_grad : InUnit(lambda_grad[i])

\* At 0.9995 with increment 0.001 only the lower neighbour was returned.
C16_Witness ==
    lambda_base = 99950 /\ increment = DefaultIncrement /\ lambda_grad = <<99850>>

\* C17 as stated: for lambda_value 0.0005 and increment 0.001
\* generate_lam_vals raises.
C17_RaisesNearZero ==
    (lambda_base = 50 /\ increment = DefaultIncrement /\ Generated) =>
        last_error = "Increment too large"

\* C17 as amended: for lambda_value 0.0005 and increment 0.001
\* generate_lam_vals raises nothing and returns the upper neighbour, 0.0015,
\* alone.
C17_UpperNeighbourNearZero ==
    (lambda_base = 50 /\ increment = DefaultIncrement /\ Generated) =>
        lambda_grad = <<150>> /\ last_error = None

\* generate_lam_vals has returned for 0.0005 and 0.001.
C17_Witness ==
    lambda_base = 50 /\ increment = DefaultIncrement /\ Generated

\* ------------------------------------------------- properties of the Runner

\* A window whose session holds a device: it took gpu_num from the pool, has
\* not put it back, and its run_window call has not ended.
Holder(w) == held[w] /\ Active(w)

NoDuplicates(s) == \A i, j \in DOMAIN s : s[i] = s[j] => i = j

\* How often window w occurs in run()'s result list.
Count(s, w) == Cardinality({i \in DOMAIN s : s[i] = w})

\* C1: in a parallel cuda run no device id is held by two sessions at the
\* same time.
C1_NoDoubleAssignment ==
    PoolRun => \A v, w \in Windows :
                  (v # w /\ Holder(v) /\ Holder(w)) => gpu_num[v] # gpu_num[w]

\* C2: a run_window call that removed a device id from the pool has put it
\* back when the call ends, however it ends.
C2_DeviceReturned ==
    PoolRun => \A w \in Windows : Terminal(w) => ~held[w]

\* C3: in a parallel cuda run no id occurs twice in the pool, no id held by
\* a running session is in the pool, and the pool's ids together with the
\* held ids are the set placed in the pool at startup.
C3_PoolPartition ==
    (PoolRun /\ mainPc \notin {"start", "raised"}) =>
        /\ NoDuplicates(gpu_pool)
        /\ \A w \in Windows : Holder(w) => gpu_num[w] \notin Range(gpu_pool)
        /\ Range(gpu_pool) \cup {gpu_num[w] : w \in {v \in Windows : Holder(v)}}
              = Range(StartupPool)

\* C4: once a window's run_window has raised, run() still ends by returning,
\* with every window completed or failed.
C4_FailureIsolated ==
    (mainPc \in {"returned", "raised"} /\ \E w \in Windows : pc[w] = "failed") =>
        /\ mainPc = "returned"
        /\ \A v \in Windows : Terminal(v)

\* C5: when run() returns, its result list holds one entry for each window
\* that completed and none for a failed window.
C5_OneResultPerSuccess ==
    mainPc = "returned" =>
        \A w \in Windows : Count(results, w) = IF pc[w] = "done" THEN 1 ELSE 0

\* C6: a parallel run() returns only when every submitted window has
\* completed or failed; none is still queued or running.
C6_ReturnsAfterAllWindows ==
    (Parallel /\ mainPc = "returned") => \A w \in Windows : Terminal(w)

\* A parallel run has returned although as_completed saw one job only: a
\* window it never looked at has failed, the one it looked at has completed.
C6_Witness ==
    /\ Parallel
    /\ mainPc = "returned"
    /\ \E v \in jobs, w \in Windows \ jobs : pc[v] = "done" /\ pc[w] = "failed"

\* C7: sim._run is called at most twice for a window; the second call
\* happens only with minimise, after the first call raised, and passes
\* lambda_minimisation = 0.0; after a raising first call with minimise the
\* second call is what follows; when both raise, the exception leaves
\* run_window and the window fails.
C7_OneRetry ==
    \A w \in Windows :
        /\ Len(attempts[w]) <= 2
        /\ Len(attempts[w]) >= 1 => attempts[w][1] = None
        /\ Len(attempts[w]) = 2 =>
              config.minimise /\ outcomes[w][1] = "raise" /\ attempts[w][2] = "0.0"
        /\ (config.minimise /\ outcomes[w] = <<"raise">>) => pc[w] = "run"
        /\ outcomes[w] = <<"raise", "raise">> =>
              /\ pc[w] \in {"release_exc", "append_exc", "failed"}
              /\ exc[w] = "session"

\* One window failed after two raising calls, another completed on its retry.
C7_Witness ==
    \E v, w \in Windows :
        /\ outcomes[v] = <<"raise", "raise">> /\ pc[v] = "failed"
        /\ outcomes[w] = <<"raise", "ok">> /\ pc[w] = "done"
        /\ attempts[w] = <<None, "0.0">>

\* C14: in a parallel cuda run whose pool was populated at startup no
\* acquire fails: a worker that finds the pool empty waits for a release.
C14_AcquireNeverFails ==
    (PoolRun /\ mainPc \notin {"start", "raised"} /\ StartupPool # << >>) =>
        \A w \in Windows : exc[w] \notin {"IndexError", "ValueError"}

\* C19: a cuda run without CUDA_VISIBLE_DEVICES fails in run() before any
\* window runs, in parallel and in sequential dispatch.
C19_MissingDeviceListFailsFast ==
    (Cuda /\ ~environ.is_set /\ mainPc # "start") =>
        /\ mainPc = "raised"
        /\ \A w \in Windows : pc[w] = "unsubmitted"

\* C20: the pool made from k raw device identifiers holds the logical ids
\* 0 .. k-1 in order, each once, whatever the raw identifiers are.
C20_PoolIsZeroToK ==
    (PoolRun /\ mainPc = "submit" /\ nextSubmit = 1) =>
        gpu_pool = [i \in 1..Len(VisibleDevices) |-> Str(i - 1)]

\* ------------------------------------------------ properties of a session

\* The window's Dynamics object has been constructed in this invocation.
Constructed == InSession /\ spc \notin {"construct", "failed", "idle"}

\* <<first, first + 1, ..., first + n - 1>>
Consecutive(first, n) == [i \in 1..n |-> first + i - 1]

\* C8: within one window's session no absolute block index is executed
\* twice, the retry call of sim._run included.
C8_BlockExecutedOnce ==
    \A w \in Windows : NoDuplicates(executed[w])

\* C9: for a session constructed with restart set, the resume index is
\* floor(persisted time / checkpoint_frequency), the remaining runtime is
\* the configured runtime less the persisted time, and the blocks executed
\* are resume index, resume index + 1, ... in this order.
C9_ResumePoint ==
    (Constructed /\ config.restart /\ configured.checkpoint_frequency > 0) =>
        /\ current_block = runner_time \div configured.checkpoint_frequency
        /\ config.runtime = configured.runtime - runner_time
        /\ executed[nextSubmit] = Consecutive(current_block, Len(executed[nextSubmit]))

\* C10: through a run and the restarts of the same window no absolute block
\* index is used by blocks of two invocations.
C10_IndexUniqueAcrossRestarts ==
    \A w \in Windows : Range(executed[w]) \cap past[w] = {}

\* --------------------------------- properties of the energy trajectory file

\* C11: a block of the loop other than the first appends to the window's
\* energy trajectory file exactly the rows that block produced: none that an
\* earlier block wrote, and none of its own left out.
C11_AppendsBlockRows ==
    last_write.kind = "later" => last_write.appended = last_write.produced

\* C12: when a window's run has completed, its energy trajectory file holds
\* one row for each energy sample of the whole runtime, runtime /
\* energy_frequency of them, the remainder block's included.
C12_RowsOfWholeRuntime ==
    \A w \in Windows :
        (w \in Range(results) /\ configured.checkpoint_frequency > 0) =>
            Len(parquet[w]) \in {configured.runtime \div configured.energy_frequency,
                                 (configured.runtime + configured.energy_frequency - 1)
                                     \div configured.energy_frequency}

\* -------------------------------------------- properties of the files written

\* C13: no file is written by the sessions of two different windows.
C13_DisjointFiles ==
    \A v, w \in Windows : v # w => written[v] \cap written[w] = {}

\* C18: when generate_lam_vals raises for an increment that is too large, no
\* phase of any window has run and no file has been written.
C18_IncrementErrorFirst ==
    last_error = "Increment too large" =>
        /\ phases = << >>
        /\ \A w \in Windows : written[w] = {}

\* ------------------------------------------ properties of a session's steps

\* The positions in the steps of window w where the operation op was done.
Ops(w, op) == {i \in DOMAIN steps[w] : steps[w][i].op = op}

\* The windows run() has a result for.
Completed == Range(results)

\* checkpoint_frequency equals runtime: one block, no remainder.
SingleBlock == configured.checkpoint_frequency = configured.runtime

\* The rows the engine produced in the block whose energy write is step i.
BlockRows(w, i) ==
    LET advances == {j \in Ops(w, "advance") : j < i}
        last == CHOOSE j \in advances : \A k \in advances : k <= j
    IN  steps[w][last].rows

C22_CheckpointHasMetadata ==
    \A w \in Windows : \A i \in Ops(w, "checkpoint") : steps[w][i].metadata

\* C23: in a restart no session equilibrates and no session's clock is put
\* back below the persisted simulated time.
C23_NoEquilibrationOnRestart ==
    config.restart =>
        /\ \A w \in Windows : Ops(w, "equilibrate") = {}
        /\ Constructed => system_time >= runner_time

\* C24: in a sequential restart the session of every window, the first and
\* the later ones alike, has as its runtime the configured runtime less the
\* persisted simulated time.
C24_RemainingRuntime ==
    \A w \in Windows :
        (config.restart /\ Constructed /\ nextSubmit = w) =>
            config.runtime = configured.runtime - runner_time

\* The time the engine moved on by in step i of window w.
Advanced(w, i) == steps[w][i].engine - steps[w][i].system

\* The steps of window w in which the engine ran for the part given.
Advances(w, part) == {i \in Ops(w, "advance") : steps[w][i].part = part}

\* C25: when the production loop of a session's first attempt has ended, it
\* has run floor(runtime / checkpoint_frequency) blocks of length
\* checkpoint_frequency and one more block exactly when there is a remainder,
\* and the clock has moved on by runtime; with runtime below
\* checkpoint_frequency it has run one block of length runtime and no
\* remainder block.
C25_PartitionsRuntime ==
    LET w == nextSubmit
        runtime == configured.runtime
        frequency == configured.checkpoint_frequency
    IN  (InSession /\ spc = "finalise" /\ attempt = 1 /\ frequency > 0) =>
            /\ system_time = runtime
            /\ IF runtime < frequency
               THEN /\ Cardinality(Advances(w, "block")) = 1
                    /\ \A i \in Advances(w, "block") : Advanced(w, i) = runtime
                    /\ Advances(w, "remainder") = {}
               ELSE /\ Cardinality(Advances(w, "block")) = runtime \div frequency
                    /\ \A i \in Advances(w, "block") : Advanced(w, i) = frequency
                    /\ Cardinality(Advances(w, "remainder"))
                          = IF runtime % frequency > 0 THEN 1 ELSE 0

\* C26: the files the final trajectory is loaded from are in ascending
\* order of block index, whatever the number of blocks, the .bak file of
\* the earlier trajectory coming first on a restart.
C26_ChunksInBlockOrder ==
    /\ \A i, j \in DOMAIN traj_chunks : i < j => traj_chunks[i] < traj_chunks[j]
    /\ spc = "load" => traj_chunks[1] = -1

\* The place of a part of sim._run and run_window in the order of the phases.
PhaseRank(part) ==
    CASE part = "start" -> 0
      [] part = "minimise" -> 1
      [] part = "equilibrate" -> 2
      [] part \in {"block", "remainder", "single"} -> 3
      [] part = "finalise" -> 4
      [] part = "complete" -> 5

\* Whether step j of the steps s comes in order within one call of sim._run,
\* which starts with the topology files: it belongs to the phase of the step
\* before it or to a later one, minimisation and equilibration are one step
\* each, finalisation follows production, and completion follows the final
\* checkpoint; a new call does not follow completion.
InOrder(s, j) ==
    LET this == PhaseRank(s[j].part)
        last == IF j = 1 THEN -1 ELSE PhaseRank(s[j - 1].part)
    IN  IF this = 0 THEN last < 5
        ELSE /\ 0 <= last /\ last <= this
             /\ this \in {1, 2} => last < this
             /\ this = 4 => last \in {3, 4}
             /\ this = 5 => last = 4 /\ s[j - 1].op = "checkpoint"

\* Every step a transition adds to a window's steps comes in order.
PhasesInOrder ==
    \A w \in Windows :
        /\ Len(steps'[w]) >= Len(steps[w])
        /\ SubSeq(steps'[w], 1, Len(steps[w])) = steps[w]
        /\ \A j \in (Len(steps[w]) + 1)..Len(steps'[w]) : InOrder(steps'[w], j)

\* A step taken when the window's run_window call has failed: the window
\* stays failed, and no step, phase or file of any window is added.
FailedIsFinal ==
    spc = "failed" =>
        /\ spc' = "failed"
        /\ UNCHANGED <<steps, phases, written, parquet, checkpoint, results>>

\* C27: the phases of one attempt occur in the order minimisation,
\* equilibration, production, finalisation, completion, and once the window
\* has failed nothing more is executed or written for it.
C27_PhaseOrder == [][PhasesInOrder /\ FailedIsFinal]_vars

\* A window has gone through every phase in its second attempt, its first
\* one having failed during production; a later window has failed.
C27_Witness ==
    /\ spc = "failed"
    /\ \E w \in Completed :
          /\ Cardinality(Ops(w, "topology")) = 2
          /\ Cardinality(Ops(w, "minimise")) = 2
          /\ Cardinality(Ops(w, "equilibrate")) = 2
          /\ Cardinality(Ops(w, "energy_final")) = 1
          /\ Cardinality(Advances(w, "remainder")) = 1

\* Whether step j of the steps s comes in order within its turn of the block
\* loop: a turn starts with the engine's run; the energy components follow
\* the run, the commit follows one of these two, the chunk file follows the
\* commit, the checkpoint follows the chunk file (the commit when no
\* trajectory is saved) and the energy trajectory follows the checkpoint.
InBlockOrder(s, j) ==
    LET op == s[j].op
        turn == j > 1 /\ s[j - 1].part = "block" /\ s[j - 1].x = s[j].x
        last == IF j > 1 THEN s[j - 1].op ELSE "none"
    IN  (s[j].part = "block" /\ op # "advance") =>
            /\ turn
            /\ op = "energy_components" => last = "advance"
            /\ op = "commit" => last \in {"advance", "energy_components"}
            /\ op = "chunk" => last = "commit"
            /\ op = "checkpoint" =>
                  last = IF config.save_trajectories THEN "chunk" ELSE "commit"
            /\ op \in {"energy_fresh", "energy_append"} => last = "checkpoint"

\* A checkpoint is written by a turn of the block loop or at finalisation,
\* not by the remainder block, and from a system that has the engine's clock.
FromCommitted(s, j) ==
    s[j].op = "checkpoint" =>
        /\ s[j].part \in {"block", "finalise"}
        /\ s[j].system = s[j].engine

\* C28: every step a transition adds to a window's steps is in the order of
\* its block (engine run, commit, chunk file, checkpoint, energy
\* trajectory); checkpoints are written from committed state only, and none
\* by the remainder block.
C28_BlockStepOrder ==
    [][\A w \in Windows :
          \A j \in (Len(steps[w]) + 1)..Len(steps'[w]) :
              InBlockOrder(steps'[w], j) /\ FromCommitted(steps'[w], j)]_vars

\* A window completed a run of one full block and a remainder block in
\* which the engine moved on, with chunk files: the block wrote the
\* checkpoint, the remainder block did not, finalisation did.
C28_Witness ==
    \E w \in Completed :
        /\ Cardinality(Ops(w, "topology")) = 1
        /\ Cardinality(Ops(w, "chunk")) = 2
        /\ Cardinality(Ops(w, "checkpoint")) = 2
        /\ \E i \in Advances(w, "remainder") : Advanced(w, i) > 0

\* ------------------------------------------- properties of failing windows

\* sim._run raised for window w in a run without minimise.
DynamicsThrew(w) == ~config.minimise /\ outcomes[w] = <<"raise">>

\* C29: without minimise, a window whose sim._run raised goes on to nothing
\* but the release of its device and the failure: its run_window call ends
\* with an exception, without the final energy file and without a result in
\* run()'s list, and in a parallel cuda run it holds its device no longer; a
\* sequential run() has not returned.
C29_FailureSurfaces ==
    \A w \in Windows :
        DynamicsThrew(w) =>
            /\ pc[w] \in {"release_exc", "append_exc", "failed"}
            /\ w \notin Range(results)
            /\ pc[w] = "failed" => exc[w] # None /\ ~held[w]
            /\ ~Parallel => mainPc # "returned"

\* In a parallel cuda run without minimise a window's dynamics threw: the
\* window has failed, its device is in the pool again, and run() has
\* returned the result of another window.
C29_Witness ==
    /\ PoolRun
    /\ mainPc = "returned"
    /\ results # << >>
    /\ \E w \in Windows :
          DynamicsThrew(w) /\ pc[w] = "failed" /\ gpu_num[w] \in Range(gpu_pool)

\* The configured runtime is made of whole blocks: no remainder block.
WholeBlocks ==
    /\ configured.checkpoint_frequency > 0
    /\ \/ configured.runtime < configured.checkpoint_frequency
       \/ configured.runtime % configured.checkpoint_frequency = 0

\* C30: the clock of the system a completed window has saved last is the
\* configured runtime, also when the window completed at its second attempt
\* (runs that are not restarts, made of whole blocks).
C30_FinalTimeIsRuntime ==
    \A w \in Completed : WholeBlocks => checkpoint[w] = configured.runtime

\* ------------------------------------------- properties of the chunk files

\* C31: every chunk file, the one of the remainder block included, holds
\* exactly the frames the engine produced in its block, and no frame is in
\* two chunk files of a window.
C31_ChunkHoldsBlockFrames ==
    \A w \in Windows :
        /\ \A i \in DOMAIN chunks[w] : chunks[w][i].saved = chunks[w][i].produced
        /\ \A i, j \in ChunkFiles(w) :
              i # j => chunks[w][i].saved \cap chunks[w][j].saved = {}

====
